---- MODULE Spec2Model ----
(***************************************************************************)
(* State-machine model of the a8-manpower front-end.                       *)
(*                                                                         *)
(*   SpecJD     : the job description store, useJobDescriptions            *)
(*                (src/src/components/job-descriptions/hooks/              *)
(*                 useJobDescriptions.ts)                                  *)
(*   SpecSL     : the shortlist facade, useShortlists (src/unnamed/        *)
(*                part_000)                                                *)
(*   SpecMatch  : the facade's handleMatch and the matching orchestrator,  *)
(*                the external matching call always completing             *)
(*   SpecUI     : the upload component, UploadJD, and the candidate search *)
(*                tab, SearchTab (src/unnamed/part_001)                    *)
(*   SpecUIFair : SpecUI with every awaited call completing                *)
(*   SpecPF     : ProfileForm.onSubmit and two saveProfile calls over the  *)
(*                employer_profiles relation                               *)
(*                                                                         *)
(* Every asynchronous handler is cut at its awaits: one action up to the   *)
(* await (the request is sent), one action for the reply and the code that *)
(* runs after it.  The backend (Supabase) is the environment: a relational *)
(* call answers {data, error} or throws; a write takes effect only when it *)
(* answers without error.  The two hooks each keep a userId of their own;  *)
(* the specifications are never composed, so the variable userId is the    *)
(* userId of the hook the specification is about, and the parts a          *)
(* specification is not about stay as they are at the start.               *)
(***************************************************************************)
EXTENDS Integers, Sequences, FiniteSets, TLC

VARIABLES
    \* ---- identity service and session provider
    session,          \* the user the identity service holds a session for, or Null
    userId,           \* useState<string | null>(null)
    sessPc,           \* "mount" | "awaiting" | "done": position of the mount effect
    getSessionCalls,  \* number of supabase.auth.getSession() calls issued
    consoleErrors,    \* op -> its latest invocation logged with console.error
    \* ---- notification sink and budget
    toasts,           \* op -> the notifications its latest invocation emitted
    ops,              \* number of user-triggered handler invocations so far
    \* ---- job_descriptions relation and its query cache
    job_descriptions, \* function: id of an existing row -> row
    qHasData,         \* the query of the current key holds data
    qData,            \* that data (<<>> when none)
    qInvalid,         \* the query is marked invalidated
    isError,          \* the last fetch of the query threw
    qFetch,           \* the fetch in flight
    selectLog,        \* the userIds selects on job_descriptions were issued with
    \* ---- handleDelete
    delPc, delArg, delConfirm, delRet,
    delOutcome,       \* how the backend answered the latest handleDelete
    \* ---- handleUpdate
    updPc, updArg, updRet,
    updOutcome,       \* how the backend answered the latest handleUpdate
    \* ---- cv_match relation, matched candidates, matching session
    cv_match,         \* function: id of an existing row -> user_id
    clrPc,            \* "idle" | "sent": position of handleClearMatches
    clrFilter,        \* the filter of the delete in flight
    clrLog,           \* the clear calls completed in succession, oldest first
    matchedCandidates,\* ids of the cv_match rows the candidate match store holds
    mcFetch,          \* "idle" | "sent": the store's fetch in flight
    mcError,          \* the store's last fetch failed
    mcRefetches,      \* refetches the latest handleMatch invocation triggered
    isMatching, matchingResults, matchPc, matchUid,
    clrCore,          \* the latest handleClearMatches invoked handleClearMatchesCore
    jdText,           \* jobDescription, the text state of useJobDescriptionData
    matchIn,          \* the arguments of the latest facade handleMatch call
    coreCalls,        \* the handleMatchCore calls that invocation made, in order
    matchOutcome,     \* "none" | "ok" | "error": how its external call ended
    \* ---- UploadJD
    file,             \* useState<File | null>(null): the name of the selected file
    textInput,        \* useState(""): the text typed, a sequence of characters
    isProcessing,     \* useState(false)
    upPc,             \* "idle" | "storing" | "reading" | "processing": handleUpload
    upOutcome,        \* "none" | "ok" | "failed": how its awaited calls ended
    txPc,             \* "idle" | "processing": position of handleTextSubmit
    txOutcome,        \* "none" | "ok" | "failed"
    picked,           \* the file of the latest handleFileChange event, and a tick
    \* ---- SearchTab
    searchTerm,       \* useState("")
    isSearching,      \* useState(false)
    srPc,             \* "idle" | "fetching": position of handleTalentSearch
    srKey,            \* the searchTerm of the query the refetch in flight runs
    srOutcome,        \* "none" | "ok" | "error": how the cv_metadata select ended
    searchResults,    \* the term whose rows the query of the current key holds
    \* ---- history of the form handlers
    remoteCalls,      \* handler -> remote calls its latest invocation issued
    invocations,      \* handler -> number of invocations so far
    \* ---- employer_profiles relation, ProfileForm.onSubmit, saveProfile
    employer_profiles,\* function: id of an existing row -> user_id
    subPc,            \* "idle" | "auth" | "writing" | "invalidating": onSubmit
    subProfile,       \* profile?.id of the form, or 0
    subUser,          \* the user getUser() gave onSubmit
    subTrace,         \* what the latest onSubmit did, in order
    svPc,             \* call -> position of that saveProfile call
    svProfile,        \* call -> profile?.id it was called with, or 0
    svUser,           \* call -> the user getUser() gave it
    svAuth,           \* call -> "none" | "ok" | "error" | "nouser": that lookup
    svHadRow,         \* call -> its user had a row when it was called
    svTarget,         \* call -> id of the row its update is filtered by
    svWrites,         \* call -> the writes it sent, in order
    svRet             \* call -> "none" | "data" | "error": what it returned

sessVars == <<session, userId, sessPc, getSessionCalls>>
uiVars   == <<toasts, ops, consoleErrors>>
jdVars   == <<job_descriptions, qHasData, qData, qInvalid, isError, qFetch, selectLog,
              delPc, delArg, delConfirm, delRet, delOutcome, updPc, updArg, updRet,
              updOutcome>>
slVars   == <<cv_match, clrPc, clrFilter, clrLog, matchedCandidates, mcFetch,
              mcError, mcRefetches, isMatching, matchingResults, matchPc, matchUid,
              clrCore, jdText, matchIn, coreCalls, matchOutcome>>
upVars   == <<file, textInput, isProcessing, upPc, upOutcome, txPc, txOutcome,
              picked>>
srVars   == <<searchTerm, isSearching, srPc, srKey, srOutcome, searchResults>>
histVars == <<remoteCalls, invocations>>
pfVars   == <<employer_profiles, subPc, subProfile, subUser, subTrace, svPc,
              svProfile, svUser, svAuth, svHadRow, svTarget, svWrites, svRet>>
formVars == <<upVars, srVars, histVars, pfVars>>
vars     == <<sessVars, uiVars, jdVars, slVars, formVars>>

-----------------------------------------------------------------------------
(* Bounds *)

NJobs    == 2      \* rows of job_descriptions at the start
MaxOps   == 3      \* handler invocations per run
NMatches == 2      \* ids of cv_match rows

Null   == "null"
Users  == {"u1", "u2"}
Edits  == {1}      \* the edits a caller may submit
Calls  == {1, 2}   \* the saveProfile calls that may be in progress together
JobIds == 1..NJobs
MatchIds == 1..NMatches

-----------------------------------------------------------------------------
(* The job_descriptions relation *)

\* The six fields handleUpdate copies into updateData.
WFields == {"job_title", "company_name", "location", "original_text",
            "job_requirements", "benefits"}

\* A row of job_descriptions as the relation holds it before any edit.
InitRow(j, u) ==
    [id |-> j, user_id |-> u, job_title |-> 0, company_name |-> 0, location |-> 0,
     original_text |-> 0, job_requirements |-> 0, benefits |-> 0,
     employer_profile_id |-> 0, agent_id |-> 0, created_at |-> j]

\* The JobDescription a caller hands to handleUpdate: edit k of row j.  Every
\* whitelisted field gets a value of its own; the other fields carry values
\* the row never holds.
EditArg(j, k) ==
    [id |-> j, user_id |-> "ux", job_title |-> 10 * k + 1, company_name |-> 10 * k + 2,
     location |-> 10 * k + 3, original_text |-> 10 * k + 4,
     job_requirements |-> 10 * k + 5, benefits |-> 10 * k + 6,
     employer_profile_id |-> 99, agent_id |-> 99, created_at |-> 99]

\* A variant of updateData that sends the whole JobDescription it was given.
updateDataWhole(jobDescription) == jobDescription

\* const updateData = { job_title: ..., ..., benefits: ... }
updateData(jobDescription) == [f \in WFields |-> jobDescription[f]]

\* .update(updateData).eq('id', id): the rows of the relation after the update.
ApplyUpdate(rel, id, upd) ==
    [j \in DOMAIN rel |->
        IF j = id
        THEN [f \in DOMAIN rel[j] |-> IF f \in DOMAIN upd THEN upd[f] ELSE rel[j][f]]
        ELSE rel[j]]

\* .delete().eq('id', jobId): the rows of the relation after the delete.
ApplyDelete(rel, id) == [j \in (DOMAIN rel) \ {id} |-> rel[j]]

\* .order('created_at', { ascending: false })
RECURSIVE OrderDesc(_)
OrderDesc(S) ==
    IF S = {} THEN <<>>
    ELSE LET r == CHOOSE x \in S : \A y \in S : y.created_at <= x.created_at
         IN  <<r>> \o OrderDesc(S \ {r})

\* A variant of SelectJobDescriptions without the user_id filter.
SelectJobDescriptionsAll(uid) ==
    OrderDesc({job_descriptions[j] : j \in DOMAIN job_descriptions})

\* .from('job_descriptions').select(...).eq('user_id', userId).order(...)
SelectJobDescriptions(uid) ==
    OrderDesc({job_descriptions[j] : j \in {i \in DOMAIN job_descriptions :
                                              job_descriptions[i].user_id = uid}})

\* data.map(item => ({...item, employer_profile_id: ..., agent_id: ...}))
Transform(item) ==
    [item EXCEPT !.employer_profile_id = item.employer_profile_id,
                 !.agent_id = item.agent_id]

transformedData(data) == [i \in 1..Len(data) |-> Transform(data[i])]

\* const { data: jobDescriptions = [] } = useQuery(...)
jobDescriptions == IF qHasData THEN qData ELSE <<>>

ListIds == {jobDescriptions[i].id : i \in 1..Len(jobDescriptions)}

-----------------------------------------------------------------------------
(* The list query: useQuery({queryKey: ['jobDescriptions', userId], ...}) *)

\* A variant of Truthy that takes every userId, null too, for a user.
TruthyAlways(uid) == TRUE

\* JavaScript truthiness of a userId, as in `!userId`, `!!userId`, `if (userId)`.
Truthy(uid) == uid # Null

\* enabled: !!userId
QueryEnabled == Truthy(userId)

Idle == [st |-> "idle", uid |-> Null, ok |-> TRUE, rows |-> <<>>]

\* queryFn up to its await: the early return for a missing userId, or the
\* select sent to the backend.
queryFnStart(uid) ==
    IF ~Truthy(uid)
    THEN /\ qFetch' = [st |-> "replied", uid |-> uid, ok |-> TRUE, rows |-> <<>>]
         /\ selectLog' = selectLog
    ELSE /\ qFetch' = [st |-> "sent", uid |-> uid, ok |-> TRUE, rows |-> <<>>]
         /\ selectLog' = selectLog \cup {uid}

\* The observer fetches when it is enabled and its query holds no data yet.
QueryMountFetch ==
    /\ QueryEnabled
    /\ qFetch.st = "idle"
    /\ ~qHasData /\ ~isError
    /\ queryFnStart(userId)
    /\ UNCHANGED <<sessVars, uiVars, slVars, job_descriptions, qHasData, qData,
                   qInvalid, isError, delPc, delArg, delConfirm, delRet, delOutcome,
                   updPc, updArg, updRet, updOutcome>>
    /\ UNCHANGED formVars

\* A refetch the query client starts by itself (window focus, reconnect):
\* only for an enabled query.
QueryRefetch ==
    /\ QueryEnabled
    /\ qFetch.st = "idle"
    /\ qHasData \/ isError
    /\ ops < MaxOps
    /\ ops' = ops + 1
    /\ queryFnStart(userId)
    /\ UNCHANGED <<sessVars, toasts, consoleErrors, slVars,
                   job_descriptions, qHasData, qData, qInvalid, isError, delPc, delArg, delConfirm, delRet, delOutcome,
                   updPc, updArg, updRet, updOutcome>>
    /\ UNCHANGED formVars

\* The backend answers the select: { data, error }.
SelectReply(ok) ==
    /\ qFetch.st = "sent"
    /\ qFetch' = [qFetch EXCEPT !.st = "replied", !.ok = ok,
                                !.rows = IF ok THEN SelectJobDescriptions(qFetch.uid)
                                         ELSE <<>>]
    /\ UNCHANGED <<sessVars, uiVars, slVars, job_descriptions, qHasData, qData,
                   qInvalid, isError, selectLog, delPc, delArg, delConfirm, delRet, delOutcome,
                   updPc, updArg, updRet, updOutcome>>
    /\ UNCHANGED formVars

\* queryFn after its await: `if (error) throw error`, else the transformed data;
\* the query takes the result.  A throw leaves the data and sets isError: no
\* notification is emitted on this path.
QuerySettle ==
    /\ qFetch.st = "replied"
    /\ qFetch' = Idle
    /\ IF qFetch.ok
       THEN /\ qData' = transformedData(qFetch.rows)
            /\ qHasData' = TRUE
            /\ qInvalid' = FALSE
            /\ isError' = FALSE
       ELSE /\ isError' = TRUE
            /\ UNCHANGED <<qData, qHasData, qInvalid>>
    /\ UNCHANGED <<sessVars, toasts, ops, consoleErrors, slVars, job_descriptions, selectLog, delPc,
                   delArg, delConfirm, delRet, delOutcome, updPc, updArg, updRet, updOutcome>>
    /\ UNCHANGED formVars

\* queryClient.invalidateQueries({ queryKey: ['jobDescriptions'] }): the query is
\* marked invalidated; an enabled (active) query drops its fetch in flight and
\* fetches again, a disabled one is left alone.
invalidateQueries ==
    /\ qInvalid' = TRUE
    /\ IF QueryEnabled
       THEN queryFnStart(userId)
       ELSE UNCHANGED <<qFetch, selectLog>>
    /\ UNCHANGED <<qHasData, qData, isError>>

-----------------------------------------------------------------------------
(* Notifications *)

OpNames == {"session", "list", "remove", "update", "clear", "match",
            "file", "upload", "text", "search", "submit", "save"}

\* toast({ title, description, variant }) from operation op
toast(op, variant) == toasts' = [toasts EXCEPT ![op] = Append(@, variant)]

\* A new invocation of op begins: nothing emitted or logged by it yet.
begin(op) ==
    /\ toasts' = [toasts EXCEPT ![op] = <<>>]
    /\ consoleErrors' = [consoleErrors EXCEPT ![op] = FALSE]

Toasted(op, variant) == \E i \in 1..Len(toasts[op]) : toasts[op][i] = variant

\* console.error(...) from operation op
logError(op) == consoleErrors' = [consoleErrors EXCEPT ![op] = TRUE]

-----------------------------------------------------------------------------
(* The session provider of useJobDescriptions: the mount effect *)

\* useEffect(() => { ...; fetchUserId(); }, []): getSession is called.
fetchUserId ==
    /\ sessPc = "mount"
    /\ sessPc' = "awaiting"
    /\ getSessionCalls' = getSessionCalls + 1
    /\ UNCHANGED <<session, userId, uiVars, jdVars, slVars>>
    /\ UNCHANGED formVars

\* A variant of fetchUserIdReply that runs the effect again after a failure.
fetchUserIdReplyRetry(failed) ==
    /\ sessPc = "awaiting"
    /\ IF failed
       THEN /\ logError("session")
            /\ sessPc' = "mount"
            /\ UNCHANGED <<userId, qHasData, qData, qInvalid, isError, qFetch>>
       ELSE /\ sessPc' = "done"
            /\ consoleErrors' = consoleErrors
            /\ IF session # Null
               THEN /\ userId' = session
                    /\ qHasData' = FALSE /\ qData' = <<>> /\ qInvalid' = FALSE
                    /\ isError' = FALSE /\ qFetch' = Idle
               ELSE UNCHANGED <<userId, qHasData, qData, qInvalid, isError, qFetch>>
    /\ UNCHANGED <<session, getSessionCalls, toasts, ops, slVars,
                   job_descriptions, selectLog, delPc, delArg, delConfirm, delRet, delOutcome,
                   updPc, updArg, updRet, updOutcome>>
    /\ UNCHANGED formVars

\* fetchUserId after `await supabase.auth.getSession()`: on an error it logs and
\* returns; with a session it sets userId, and the list query moves to the key
\* ['jobDescriptions', userId], a query that holds no data yet.
fetchUserIdReply(failed) ==
    /\ sessPc = "awaiting"
    /\ sessPc' = "done"
    /\ IF failed
       THEN /\ logError("session")
            /\ UNCHANGED <<userId, qHasData, qData, qInvalid, isError, qFetch>>
       ELSE /\ consoleErrors' = consoleErrors
            /\ IF session # Null
               THEN /\ userId' = session
                    /\ qHasData' = FALSE /\ qData' = <<>> /\ qInvalid' = FALSE
                    /\ isError' = FALSE /\ qFetch' = Idle
               ELSE UNCHANGED <<userId, qHasData, qData, qInvalid, isError, qFetch>>
    /\ UNCHANGED <<session, getSessionCalls, toasts, ops, slVars,
                   job_descriptions, selectLog, delPc, delArg, delConfirm, delRet, delOutcome,
                   updPc, updArg, updRet, updOutcome>>
    /\ UNCHANGED formVars

-----------------------------------------------------------------------------
(* handleDelete *)

\* A variant of Declined that never takes the prompt's answer for a refusal.
DeclinedNever(confirmed) == FALSE

\* if (!confirm(...)) return;
Declined(confirmed) == ~confirmed

\* A variant of ErrorReported that never sees the error the backend reported.
ErrorReportedNever(outcome) == FALSE

\* `if (error)` on the object a mutation call resolved with: the backend
\* answered and reported an error.
ErrorReported(outcome) == outcome = "error"

\* handleDelete(jobId) up to its await: the confirmation prompt, then the delete
\* sent to the backend.
handleDelete(jobId, confirmed) ==
    /\ delPc = "idle"
    /\ ops < MaxOps
    /\ ops' = ops + 1
    /\ delArg' = jobId
    /\ delConfirm' = confirmed
    /\ IF Declined(confirmed)
       THEN /\ delPc' = "idle"
            /\ delRet' = "undefined"
       ELSE /\ delPc' = "sent"
            /\ delRet' = "none"
    /\ delOutcome' = "none"
    /\ begin("remove")
    /\ UNCHANGED <<sessVars, slVars, job_descriptions,
                   qHasData, qData, qInvalid, isError, qFetch, selectLog,
                   updPc, updArg, updRet, updOutcome>>
    /\ UNCHANGED formVars

\* handleDelete after `await ...delete().eq('id', jobId)`.
\*   "ok":    no error; the success toast, then invalidateQueries is awaited.
\*   "error": { error } is set; the destructive toast and a bare `return`.
\*   "throw": the call threw; the catch block toasts and returns false.
handleDeleteReply(outcome) ==
    /\ delPc = "sent"
    /\ delOutcome' = outcome
    /\ job_descriptions' = IF outcome = "ok"
                           THEN ApplyDelete(job_descriptions, delArg)
                           ELSE job_descriptions
    /\ CASE outcome = "throw" ->
              /\ logError("remove")
              /\ toast("remove", "destructive")
              /\ delPc' = "idle"
              /\ delRet' = "false"
              /\ UNCHANGED <<qHasData, qData, qInvalid, isError, qFetch, selectLog>>
         [] outcome # "throw" /\ ErrorReported(outcome) ->
              /\ logError("remove")
              /\ toast("remove", "destructive")
              /\ delPc' = "idle"
              /\ delRet' = "undefined"
              /\ UNCHANGED <<qHasData, qData, qInvalid, isError, qFetch, selectLog>>
         [] OTHER ->
              /\ toast("remove", "success")
              /\ invalidateQueries
              /\ delPc' = "invalidating"
              /\ UNCHANGED <<delRet, consoleErrors>>
    /\ UNCHANGED <<sessVars, ops, slVars, delArg, delConfirm, updPc, updArg,
                   updRet, updOutcome>>
    /\ UNCHANGED formVars

\* handleDelete after `await queryClient.invalidateQueries(...)`: return true.
\* The await ends when the refetch it started has settled (at once when the
\* query is disabled and nothing was fetched).
handleDeleteReturn ==
    /\ delPc = "invalidating"
    /\ qFetch.st = "idle"
    /\ delPc' = "idle"
    /\ delRet' = "true"
    /\ UNCHANGED <<sessVars, uiVars, slVars, job_descriptions, qHasData, qData,
                   qInvalid, isError, qFetch, selectLog, delArg, delConfirm, delOutcome,
                   updPc, updArg, updRet, updOutcome>>
    /\ UNCHANGED formVars

-----------------------------------------------------------------------------
(* handleUpdate *)

\* handleUpdate(jobDescription) up to its await: updateData is built and the
\* update is sent to the backend.
handleUpdate(jobDescription) ==
    /\ updPc = "idle"
    /\ ops < MaxOps
    /\ ops' = ops + 1
    /\ updArg' = jobDescription
    /\ updPc' = "sent"
    /\ updRet' = "none"
    /\ updOutcome' = "none"
    /\ begin("update")
    /\ UNCHANGED <<sessVars, slVars, job_descriptions,
                   qHasData, qData, qInvalid, isError, qFetch, selectLog, delPc, delArg,
                   delConfirm, delRet, delOutcome>>
    /\ UNCHANGED formVars

\* A variant of handleUpdateSucceeded that patches nothing and skips the
\* invalidation.
handleUpdateSucceededNoInvalidate ==
    /\ toast("update", "success")
    /\ updPc' = "invalidating"
    /\ UNCHANGED <<qInvalid, qFetch, selectLog, qHasData, qData, isError>>

\* The success path after the update answered without error: the success toast,
\* then `await queryClient.invalidateQueries(...)`.
handleUpdateSucceeded ==
    /\ toast("update", "success")
    /\ invalidateQueries
    /\ updPc' = "invalidating"

\* handleUpdate after `await ...update(updateData).eq('id', id).select()`.
\*   "ok":    no error; the row with that id (if any) holds updateData.
\*   "error": { error } is set; the destructive toast, return false.
\*   "throw": the call threw; the catch block toasts and returns false.
handleUpdateReply(outcome) ==
    /\ updPc = "sent"
    /\ updOutcome' = outcome
    /\ job_descriptions' =
           IF outcome = "ok"
           THEN ApplyUpdate(job_descriptions, updArg.id, updateData(updArg))
           ELSE job_descriptions
    /\ IF outcome = "throw" \/ ErrorReported(outcome)
       THEN /\ logError("update")
            /\ toast("update", "destructive")
            /\ updPc' = "idle"
            /\ updRet' = "false"
            /\ UNCHANGED <<qHasData, qData, qInvalid, isError, qFetch, selectLog>>
       ELSE /\ handleUpdateSucceeded
            /\ UNCHANGED <<updRet, consoleErrors>>
    /\ UNCHANGED <<sessVars, ops, slVars, updArg, delPc, delArg, delConfirm,
                   delRet, delOutcome>>
    /\ UNCHANGED formVars

\* handleUpdate after `await queryClient.invalidateQueries(...)`: return true.
handleUpdateReturn ==
    /\ updPc = "invalidating"
    /\ qFetch.st = "idle"
    /\ updPc' = "idle"
    /\ updRet' = "true"
    /\ UNCHANGED <<sessVars, uiVars, slVars, job_descriptions, qHasData, qData,
                   qInvalid, isError, qFetch, selectLog, updArg, delPc, delArg,
                   delConfirm, delRet, delOutcome, updOutcome>>
    /\ UNCHANGED formVars

-----------------------------------------------------------------------------
(* The cv_match relation and the candidate match store *)

\* The job description texts, job ids and roles a match is asked with; Null
\* stands for an argument left out.
Texts       == {"", "Senior Engineer"}
MatchInputs == {[id |-> Null, role |-> Null], [id |-> "JD-A", role |-> "Engineer"]}
NoMatchIn == [id |-> Null, role |-> Null]

\* matchingResults: MatchResult[] | null -- null, or the list a match produced.
NoResults      == [held |-> FALSE, rows |-> {}]
Results(found) == [held |-> TRUE, rows |-> found]

NoFilter == [kind |-> "none", uid |-> Null]

\* A variant of ClearFilter that never scopes the delete by user.
ClearFilterUnscoped(uid) == [kind |-> "id_not_null", uid |-> uid]

\* let query = supabase.from('cv_match').delete();
\* if (userId) query = query.eq('user_id', userId)
\* else        query = query.not('id', 'is', null)
ClearFilter(uid) ==
    IF Truthy(uid) THEN [kind |-> "eq_user", uid |-> uid]
    ELSE [kind |-> "id_not_null", uid |-> uid]

\* The row with id m of relation rel passes the filter.  No row has a null id.
Passes(rel, m, filter) ==
    CASE filter.kind = "eq_user"     -> rel[m] = filter.uid
      [] filter.kind = "id_not_null" -> m \in DOMAIN rel
      [] OTHER                       -> FALSE

Doomed(rel, filter) == {m \in DOMAIN rel : Passes(rel, m, filter)}

RowsOf(rel, uid) == {m \in DOMAIN rel : rel[m] = uid}

\* useMatchedCandidates(userId).refetchMatchedCandidates(): a fetch of the
\* user's cv_match rows is started (one in flight is replaced).
refetchMatchedCandidates == mcFetch' = "sent"

\* The fetch of the candidate match store settles: a read-through of cv_match
\* for the current user, or a failure that leaves the held list as it is.
MatchedCandidatesSettle(ok) ==
    /\ mcFetch = "sent"
    /\ mcFetch' = "idle"
    /\ mcError' = ~ok
    /\ matchedCandidates' = IF ok THEN RowsOf(cv_match, userId) ELSE matchedCandidates
    /\ UNCHANGED <<sessVars, uiVars, jdVars, cv_match, clrPc, clrFilter, clrCore, clrLog,
                   mcRefetches, isMatching, matchingResults, matchPc, matchUid, jdText, matchIn, coreCalls, matchOutcome>>
    /\ UNCHANGED formVars

\* useShortlistsAuth: the session provider resolves userId once; the candidate
\* match store then reads the list of that user.
useShortlistsAuthReply(failed) ==
    /\ sessPc = "awaiting"
    /\ sessPc' = "done"
    /\ IF failed
       THEN /\ logError("session")
            /\ UNCHANGED <<userId, mcFetch>>
       ELSE /\ consoleErrors' = consoleErrors
            /\ IF session # Null
               THEN /\ userId' = session
                    /\ refetchMatchedCandidates
               ELSE UNCHANGED <<userId, mcFetch>>
    /\ UNCHANGED <<session, getSessionCalls, toasts, ops, jdVars, cv_match, clrPc,
                   clrFilter, clrCore, clrLog, matchedCandidates, mcError, mcRefetches,
                   isMatching, matchingResults, matchPc, matchUid, jdText, matchIn, coreCalls, matchOutcome>>
    /\ UNCHANGED formVars

-----------------------------------------------------------------------------
(* The matching orchestrator, useMatchingLogic(refetchMatchedCandidates) *)

\* setJobDescription(text): the presentation layer edits the job description
\* text the facade exposes.
setJobDescription(text) ==
    /\ jdText # text
    /\ ops < MaxOps
    /\ ops' = ops + 1
    /\ jdText' = text
    /\ UNCHANGED <<sessVars, toasts, consoleErrors, jdVars, cv_match, clrPc,
                   clrFilter, clrCore, clrLog, matchedCandidates, mcFetch, mcError,
                   mcRefetches, isMatching, matchingResults, matchPc, matchUid,
                   matchIn, coreCalls, matchOutcome>>
    /\ UNCHANGED formVars

\* A variant of handleMatchCoreArgs that hands the core no user.
handleMatchCoreArgsNoUser(jobDescriptionId, jobRole) ==
    [text |-> jdText, id |-> jobDescriptionId, role |-> jobRole, userId |-> Null]

\* The argument list of
\* `await handleMatchCore(jobDescription, jobDescriptionId, jobRole, userId)`.
handleMatchCoreArgs(jobDescriptionId, jobRole) ==
    [text |-> jdText, id |-> jobDescriptionId, role |-> jobRole, userId |-> userId]

\* handleMatchCore(jobDescription, jobDescriptionId, jobRole, userId) up to the
\* external matching call: Idle -> Matching.  The facade's handleMatch passes
\* its userId through, null or not.
handleMatch(jobDescriptionId, jobRole) ==
    /\ matchPc \in {"idle", "settled"}
    /\ ops < MaxOps
    /\ ops' = ops + 1
    /\ matchPc' = "matching"
    /\ isMatching' = TRUE
    /\ matchIn' = [id |-> jobDescriptionId, role |-> jobRole]
    /\ coreCalls' = <<handleMatchCoreArgs(jobDescriptionId, jobRole)>>
    /\ matchUid' = handleMatchCoreArgs(jobDescriptionId, jobRole).userId
    /\ matchOutcome' = "none"
    /\ mcRefetches' = 0
    /\ begin("match")
    /\ UNCHANGED <<sessVars, jdVars, cv_match, clrPc, clrFilter, clrCore, clrLog,
                   matchedCandidates, mcFetch, mcError, matchingResults, jdText>>
    /\ UNCHANGED formVars

\* The external matching call completes: Matching -> Settled.  On success the
\* matcher has written the rows `found` into cv_match for the user it was
\* called for, matchingResults holds them and the candidate match store is
\* refetched; on failure matchingResults is left as it was.
handleMatchSettle(ok, found) ==
    /\ matchPc = "matching"
    /\ matchPc' = "settled"
    /\ isMatching' = FALSE
    /\ matchOutcome' = IF ok /\ matchUid # Null THEN "ok" ELSE "error"
    /\ IF ok /\ matchUid # Null
       THEN /\ found \subseteq MatchIds \ DOMAIN cv_match
            /\ cv_match' = [m \in DOMAIN cv_match \cup found |->
                               IF m \in found THEN matchUid ELSE cv_match[m]]
            /\ matchingResults' = Results(found)
            /\ refetchMatchedCandidates
            /\ mcRefetches' = mcRefetches + 1
            /\ clrLog' = IF found = {} THEN clrLog ELSE <<>>
            /\ UNCHANGED <<toasts, consoleErrors>>
       ELSE /\ found = {}
            /\ logError("match")
            /\ toast("match", "destructive")
            /\ UNCHANGED <<cv_match, matchingResults, mcFetch, mcRefetches, clrLog>>
    /\ UNCHANGED <<sessVars, ops, jdVars, clrPc, clrFilter, clrCore, matchedCandidates,
                   mcError, matchUid, jdText, matchIn, coreCalls>>
    /\ UNCHANGED formVars

\* handleClearMatchesCore(): the matching session is reset and the candidate
\* match store is refetched.
handleClearMatchesCore ==
    /\ clrCore' = TRUE
    /\ matchingResults' = NoResults
    /\ refetchMatchedCandidates

-----------------------------------------------------------------------------
(* The shortlist facade, useShortlists: handleClearMatches *)

\* handleClearMatches() up to `await query`: the delete is built from the
\* userId of this render and sent.
handleClearMatches ==
    /\ clrPc = "idle"
    /\ ops < MaxOps
    /\ ops' = ops + 1
    /\ clrFilter' = ClearFilter(userId)
    /\ clrPc' = "sent"
    /\ clrCore' = FALSE
    /\ begin("clear")
    /\ UNCHANGED <<sessVars, jdVars, cv_match, clrLog, matchedCandidates, mcFetch,
                   mcError, mcRefetches, isMatching, matchingResults, matchPc,
                   matchUid, jdText, matchIn, coreCalls, matchOutcome>>
    /\ UNCHANGED formVars

\* A variant of ClearFailed that takes every answer of the delete for a success.
ClearFailedNever(outcome, removed) == FALSE

\* A variant of ClearFailed that also fails a delete that removed no row.
ClearFailedOnEmpty(outcome, removed) == outcome # "ok" \/ removed = {}

\* const { error } = await query; if (error) throw error;  -- or the await
\* itself threw: either way the catch block runs.
ClearFailed(outcome, removed) == outcome # "ok"

\* handleClearMatches after `await query`.
\*   "ok":    the rows that pass the filter are gone; handleClearMatchesCore()
\*            and the "Matches cleared" toast.
\*   "error", "throw": nothing is deleted; the catch block logs and toasts.
handleClearMatchesReply(outcome) ==
    /\ clrPc = "sent"
    /\ clrPc' = "idle"
    /\ LET removed == IF outcome = "ok" THEN Doomed(cv_match, clrFilter) ELSE {}
           failed  == ClearFailed(outcome, removed)
           after   == [m \in (DOMAIN cv_match) \ removed |-> cv_match[m]]
       IN  /\ cv_match' = after
           /\ IF failed
              THEN /\ logError("clear")
                   /\ toast("clear", "destructive")
                   /\ UNCHANGED <<matchingResults, mcFetch, clrCore>>
              ELSE /\ handleClearMatchesCore
                   /\ toast("clear", "success")
                   /\ consoleErrors' = consoleErrors
           /\ clrLog' = Append(clrLog,
                  [uid |-> clrFilter.uid, outcome |-> outcome,
                   removed |-> removed, others |-> {m \in removed : cv_match[m] # clrFilter.uid},
                   left |-> RowsOf(after, clrFilter.uid),
                   toast |-> IF failed THEN "destructive" ELSE "success"])
    /\ UNCHANGED <<sessVars, ops, jdVars, clrFilter, matchedCandidates, mcError,
                   mcRefetches, isMatching, matchPc, matchUid, jdText, matchIn, coreCalls, matchOutcome>>
    /\ UNCHANGED formVars

\* The job description store's state while the shortlist facade is studied.
JDQuiet ==
    /\ job_descriptions = <<>>
    /\ qHasData = FALSE /\ qData = <<>> /\ qInvalid = FALSE /\ isError = FALSE
    /\ qFetch = Idle /\ selectLog = {}
    /\ delPc = "idle" /\ delArg = 0 /\ delConfirm = FALSE /\ delRet = "none"
    /\ delOutcome = "none" /\ updOutcome = "none"
    /\ updPc = "idle" /\ updArg = EditArg(0, 0) /\ updRet = "none"

\* The upload component and the search tab as mounted: nothing typed, nothing
\* in flight.
UIQuiet ==
    /\ file = Null /\ textInput = <<>> /\ isProcessing = FALSE
    /\ upPc = "idle" /\ upOutcome = "none" /\ txPc = "idle" /\ txOutcome = "none"
    /\ picked = [file |-> Null, tick |-> FALSE]
    /\ searchTerm = "" /\ isSearching = FALSE /\ srPc = "idle" /\ srKey = ""
    /\ srOutcome = "none" /\ searchResults = Null
    /\ remoteCalls = [o \in OpNames |-> 0]
    /\ invocations = [o \in OpNames |-> 0]

\* The profile form and saveProfile while another part is studied.
PFQuiet ==
    /\ employer_profiles = <<>>
    /\ subPc = "idle" /\ subProfile = 0 /\ subUser = Null /\ subTrace = <<>>
    /\ svPc = [c \in Calls |-> "idle"] /\ svProfile = [c \in Calls |-> 0]
    /\ svUser = [c \in Calls |-> Null] /\ svAuth = [c \in Calls |-> "none"]
    /\ svHadRow = [c \in Calls |-> FALSE]
    /\ svTarget = [c \in Calls |-> 0] /\ svWrites = [c \in Calls |-> <<>>]
    /\ svRet = [c \in Calls |-> "none"]

FormsQuiet == UIQuiet /\ PFQuiet

\* The facade is mounted: the session provider's lookup is in flight.
InitSL ==
    /\ session \in Users \cup {Null}
    /\ userId = Null
    /\ sessPc = "awaiting"
    /\ getSessionCalls = 1
    /\ consoleErrors = [o \in OpNames |-> FALSE]
    /\ toasts = [o \in OpNames |-> <<>>] /\ ops = 0
    /\ \E S \in SUBSET MatchIds : cv_match \in [S -> Users]
    /\ clrPc = "idle" /\ clrFilter = NoFilter /\ clrLog = <<>>
    /\ matchedCandidates = {} /\ mcFetch = "idle" /\ mcError = FALSE
    /\ mcRefetches = 0
    /\ isMatching = FALSE /\ matchingResults = NoResults
    /\ matchPc = "idle" /\ matchUid = Null
    /\ clrCore = FALSE /\ jdText = "" /\ matchIn = NoMatchIn /\ coreCalls = <<>>
    /\ matchOutcome = "none"
    /\ JDQuiet
    /\ FormsQuiet

NextSL ==
    \/ \E failed \in BOOLEAN : useShortlistsAuthReply(failed)
    \/ \E ok \in BOOLEAN : MatchedCandidatesSettle(ok)
    \/ \E arg \in MatchInputs : handleMatch(arg.id, arg.role)
    \/ \E ok \in BOOLEAN, found \in SUBSET MatchIds : handleMatchSettle(ok, found)
    \/ handleClearMatches
    \/ \E o \in {"ok", "error", "throw"} : handleClearMatchesReply(o)

SpecSL == InitSL /\ [][NextSL]_vars

\* The matching orchestrator behind the facade, the clear action left aside:
\* the presentation layer edits the text and asks for matches.
NextMatch ==
    \/ \E failed \in BOOLEAN : useShortlistsAuthReply(failed)
    \/ \E ok \in BOOLEAN : MatchedCandidatesSettle(ok)
    \/ \E text \in Texts : setJobDescription(text)
    \/ \E arg \in MatchInputs : handleMatch(arg.id, arg.role)
    \/ \E ok \in BOOLEAN, found \in SUBSET MatchIds : handleMatchSettle(ok, found)

\* The external matching call always completes, with a result or a failure
\* (the transport's own timeout ends a call that gets no answer).
SpecMatch ==
    /\ InitSL
    /\ [][NextMatch]_vars
    /\ WF_vars(\E ok \in BOOLEAN, found \in SUBSET MatchIds :
                  handleMatchSettle(ok, found))

-----------------------------------------------------------------------------
(* The job description store, useJobDescriptions *)

\* The shortlist facade's state while the job description store is studied.
SLQuiet ==
    /\ cv_match = <<>>
    /\ clrPc = "idle" /\ clrFilter = NoFilter /\ clrLog = <<>>
    /\ matchedCandidates = {} /\ mcFetch = "idle" /\ mcError = FALSE
    /\ mcRefetches = 0
    /\ isMatching = FALSE /\ matchingResults = NoResults
    /\ matchPc = "idle" /\ matchUid = Null
    /\ clrCore = FALSE /\ jdText = "" /\ matchIn = NoMatchIn /\ coreCalls = <<>>
    /\ matchOutcome = "none"

InitJD ==
    /\ session \in Users \cup {Null}
    /\ userId = Null
    /\ sessPc = "mount"
    /\ getSessionCalls = 0
    /\ consoleErrors = [o \in OpNames |-> FALSE]
    /\ toasts = [o \in OpNames |-> <<>>] /\ ops = 0
    /\ \E owner \in [JobIds -> Users] :
          job_descriptions = [j \in JobIds |-> InitRow(j, owner[j])]
    /\ qHasData = FALSE /\ qData = <<>> /\ qInvalid = FALSE /\ isError = FALSE
    /\ qFetch = Idle /\ selectLog = {}
    /\ delPc = "idle" /\ delArg = 0 /\ delConfirm = FALSE /\ delRet = "none"
    /\ delOutcome = "none" /\ updOutcome = "none"
    /\ updPc = "idle" /\ updArg = EditArg(0, 0) /\ updRet = "none"
    /\ SLQuiet
    /\ FormsQuiet

NextJD ==
    \/ fetchUserId
    \/ \E failed \in BOOLEAN : fetchUserIdReply(failed)
    \/ QueryMountFetch
    \/ QueryRefetch
    \/ \E ok \in BOOLEAN : SelectReply(ok)
    \/ QuerySettle
    \/ \E j \in JobIds, c \in BOOLEAN : handleDelete(j, c)
    \/ \E o \in {"ok", "error", "throw"} : handleDeleteReply(o)
    \/ handleDeleteReturn
    \/ \E j \in JobIds, k \in Edits : handleUpdate(EditArg(j, k))
    \/ \E o \in {"ok", "error", "throw"} : handleUpdateReply(o)
    \/ handleUpdateReturn

SpecJD == InitJD /\ [][NextJD]_vars

-----------------------------------------------------------------------------
(* Properties of the shortlist facade (SpecSL) *)

\* C1: whenever handleClearMatches is invoked while userId is null no delete
\* reaches cv_match: a clear call made without a user removes no row.
C1_NullUserClearRemovesNothing ==
    \A i \in 1..Len(clrLog) : clrLog[i].uid = Null => clrLog[i].removed = {}

\* C3: a clear call made with a known userId u removes no cv_match row of
\* another user, whether the delete succeeds or fails.
C3_ClearScopedToUser ==
    \A i \in 1..Len(clrLog) : clrLog[i].uid # Null => clrLog[i].others = {}

\* A clear call of a known user removed rows and a row of another user is
\* still there.
C3_Witness ==
    \E i \in 1..Len(clrLog) :
        /\ clrLog[i].uid # Null
        /\ clrLog[i].removed # {}
        /\ \E m \in DOMAIN cv_match : cv_match[m] # clrLog[i].uid

\* C9: a clear call of a known user that the backend answers without error
\* leaves no cv_match row of that user and ends with the "Matches cleared"
\* notification, never the destructive one; when it follows such a call of the
\* same user it removes nothing; and once the store's refetch has settled the
\* matched-candidates list is empty.
C9_ClearTwiceIdempotent ==
    /\ \A i \in 1..Len(clrLog) :
          (clrLog[i].uid # Null /\ clrLog[i].outcome = "ok") =>
             /\ clrLog[i].left = {}
             /\ clrLog[i].toast = "success"
             /\ (i > 1 /\ clrLog[i-1].uid = clrLog[i].uid /\ clrLog[i-1].outcome = "ok")
                   => clrLog[i].removed = {}
    /\ ( /\ clrLog # <<>>
         /\ clrLog[Len(clrLog)].outcome = "ok"
         /\ userId # Null
         /\ clrLog[Len(clrLog)].uid = userId
         /\ mcFetch = "idle" /\ ~mcError )
       => matchedCandidates = {}

\* Two clear calls of the same known user in succession: the first removed
\* rows, the second none, both answered without error, the list refetched.
C9_Witness ==
    /\ Len(clrLog) >= 2
    /\ userId # Null
    /\ clrLog[1].uid = userId /\ clrLog[2].uid = userId
    /\ clrLog[1].outcome = "ok" /\ clrLog[2].outcome = "ok"
    /\ clrLog[1].removed # {} /\ clrLog[2].removed = {}
    /\ clrLog[2].toast = "success"
    /\ mcFetch = "idle" /\ ~mcError /\ matchedCandidates = {}

-----------------------------------------------------------------------------
(* Properties of the job description store (SpecJD) *)

\* The cached list is known to be out of date: it is marked invalidated and
\* its refetch is in flight or has failed (isError).
ListStale == qInvalid /\ (isError \/ qFetch.st # "idle")

\* C2: while userId is null the job-description list is empty and the list
\* query has issued no select on job_descriptions; no select is ever issued
\* with a null userId.
C2_NoListWithoutUser ==
    /\ Null \notin selectLog
    /\ userId = Null =>
          /\ jobDescriptions = <<>>
          /\ selectLog = {}
          /\ qFetch.st = "idle"

\* The session lookup ended without a user, rows exist, and an update has
\* gone through and invalidated the list: still nothing was fetched.
C2_Witness ==
    /\ userId = Null /\ sessPc = "done"
    /\ DOMAIN job_descriptions # {}
    /\ updRet = "true" /\ qInvalid
    /\ selectLog = {}

\* C4: every job description the list exposes has user_id equal to the current
\* userId.
C4_ListOnlyOwnRows ==
    \A i \in 1..Len(jobDescriptions) : jobDescriptions[i].user_id = userId

\* The list was refetched after an invalidation, shows rows, and the relation
\* holds a row of another user.
C4_Witness ==
    /\ Len(jobDescriptions) >= 1
    /\ updRet = "true" /\ ~qInvalid
    /\ \E j \in DOMAIN job_descriptions : job_descriptions[j].user_id # userId

\* C5: once handleUpdate has returned true for a row that exists, the row holds
\* the six submitted fields, and the list of the owning user shows those six
\* fields unless it is marked invalidated with its refetch in flight or failed
\* (so that its next read goes to the backend).
C5_UpdateThenListFresh ==
    (updPc = "idle" /\ updRet = "true" /\ updArg.id \in DOMAIN job_descriptions) =>
       LET row == job_descriptions[updArg.id] IN
       /\ \A f \in WFields : row[f] = updArg[f]
       /\ (row.user_id = userId /\ qHasData /\ ~ListStale) =>
             \E i \in 1..Len(jobDescriptions) :
                /\ jobDescriptions[i].id = updArg.id
                /\ \A f \in WFields : jobDescriptions[i][f] = updArg[f]

\* handleUpdate returned true for a row of the current user and the refetched
\* list shows the submitted title.
C5_Witness ==
    /\ updPc = "idle" /\ updRet = "true"
    /\ updArg.id \in DOMAIN job_descriptions
    /\ job_descriptions[updArg.id].user_id = userId
    /\ qHasData /\ ~qInvalid
    /\ \E i \in 1..Len(jobDescriptions) :
          jobDescriptions[i].id = updArg.id /\ jobDescriptions[i].job_title = updArg.job_title

\* C6: handleDelete without confirmation issues no delete and changes neither
\* the relation nor the cached list: a delete is in flight only after a
\* confirmation, and a row leaves the relation, or the list is invalidated,
\* only by a confirmed delete (or, for the invalidation, an update) that the
\* backend answers.  With confirmation, once the delete succeeded the row is
\* gone from the relation and from every list, unless the list is marked
\* invalidated with its refetch in flight or failed.
C6_DeleteNeedsConfirmation ==
    /\ [](delPc \in {"sent", "invalidating"} => delConfirm)
    /\ [][DOMAIN job_descriptions' # DOMAIN job_descriptions
             => (delPc = "sent" /\ delConfirm)]_vars
    /\ [][(qInvalid' /\ ~qInvalid)
             => ((delPc = "sent" /\ delConfirm) \/ updPc = "sent")]_vars
    /\ []((delPc = "idle" /\ delRet = "true") => delArg \notin DOMAIN job_descriptions)
    /\ [](\A j \in JobIds \ DOMAIN job_descriptions :
             (qHasData /\ ~ListStale) => j \notin ListIds)

\* One row was deleted with confirmation and is gone from the refetched list;
\* then the delete of another row was declined, and that row is still listed.
C6_Witness ==
    /\ ~delConfirm /\ delPc = "idle" /\ delRet = "undefined"
    /\ delArg \in DOMAIN job_descriptions /\ delArg \in ListIds
    /\ DOMAIN job_descriptions # JobIds
    /\ qHasData /\ ~qInvalid
    /\ \A j \in JobIds \ DOMAIN job_descriptions : j \notin ListIds

\* C7: a confirmed handleDelete returns a boolean on every path: true when the
\* delete succeeded, false when the backend reported an error or the call
\* threw.
C7_DeleteReturnsBoolean ==
    (delPc = "idle" /\ delConfirm /\ delRet # "none") => delRet \in {"true", "false"}

\* C8: a failure of the backend call of list, update or remove is caught inside
\* the operation and produces a destructive notification.
C8_FailuresCaughtAndNotified ==
    /\ isError => Toasted("list", "destructive")
    /\ (updPc = "idle" /\ consoleErrors["update"]) => Toasted("update", "destructive")
    /\ (delPc = "idle" /\ consoleErrors["remove"]) => Toasted("remove", "destructive")

\* C10: getSession is called at most once; after a failed lookup, or one that
\* found no session, userId is null; a userId that is set is the id of the
\* resolved session and never changes again.
C10_SessionResolvedOnce ==
    /\ [](getSessionCalls <= 1)
    /\ []((sessPc = "done" /\ (consoleErrors["session"] \/ session = Null))
             => userId = Null)
    /\ [](userId # Null => (userId = session /\ sessPc = "done"))
    /\ [][userId # Null => userId' = userId]_vars

\* The lookup failed although a session exists: userId stayed null, no second
\* lookup was made, and the handlers went on being used.
C10_Witness ==
    /\ sessPc = "done" /\ consoleErrors["session"]
    /\ session # Null /\ userId = Null
    /\ getSessionCalls = 1
    /\ ops = MaxOps

-----------------------------------------------------------------------------
(* Further properties of the job description store (SpecJD) *)

\* C13: the step in which the backend answers a handleUpdate changes nothing of
\* job_descriptions but the six whitelisted fields of the row whose id is the
\* argument's id: no row appears or disappears, every other row and every
\* other field (id, user_id, employer_profile_id, agent_id, created_at) keeps
\* its value.
C13_UpdateWritesWhitelistOnly ==
    [][(updPc = "sent" /\ updPc' # "sent") =>
          /\ DOMAIN job_descriptions' = DOMAIN job_descriptions
          /\ \A j \in DOMAIN job_descriptions :
                \A f \in DOMAIN job_descriptions[j] :
                   (j # updArg.id \/ f \notin WFields)
                      => job_descriptions'[j][f] = job_descriptions[j][f]]_vars

\* An update took effect: the row holds the argument's whitelisted values and
\* still its own user_id, not the one the argument carried.
C13_Witness ==
    /\ updRet = "true"
    /\ updArg.id \in DOMAIN job_descriptions
    /\ \A f \in WFields : job_descriptions[updArg.id][f] = updArg[f]
    /\ job_descriptions[updArg.id].user_id # updArg.user_id
    /\ job_descriptions[updArg.id].created_at # updArg.created_at

\* C16: every handleUpdate and every confirmed handleDelete emits exactly one
\* notification once the backend has answered, none before: the success one
\* if and only if the backend reported no error, the destructive one
\* otherwise, never both; and the invocation returns true exactly when the
\* backend accepted the mutation without error.
C16_OneNotificationPerMutation ==
    /\ updPc = "sent" => toasts["update"] = <<>>
    /\ updOutcome # "none" =>
          toasts["update"] = <<IF updOutcome = "ok" THEN "success" ELSE "destructive">>
    /\ (updPc = "idle" /\ updRet # "none") =>
          /\ updOutcome # "none"
          /\ updRet = "true" <=> updOutcome = "ok"
    /\ delPc = "sent" => toasts["remove"] = <<>>
    /\ delOutcome # "none" =>
          toasts["remove"] = <<IF delOutcome = "ok" THEN "success" ELSE "destructive">>
    /\ (delPc = "idle" /\ delRet # "none" /\ delConfirm) =>
          /\ delOutcome # "none"
          /\ delRet = "true" <=> delOutcome = "ok"

\* A delete the backend accepted and an update it answered with an error have
\* both returned.
C16_Witness ==
    /\ delPc = "idle" /\ delConfirm /\ delOutcome = "ok" /\ delRet = "true"
    /\ toasts["remove"] = <<"success">>
    /\ updPc = "idle" /\ updOutcome = "error" /\ updRet = "false"
    /\ toasts["update"] = <<"destructive">>

-----------------------------------------------------------------------------
(* Further properties of the shortlist facade (SpecMatch, SpecSL) *)

\* C14: a facade handleMatch call hands the core, once, the job description
\* text of that moment, the job id and role it was called with and the userId
\* of that moment, null or not; the matching state goes Idle -> Matching ->
\* Settled and reaches Settled; a call that succeeds leaves matchingResults
\* populated and has triggered refetchMatchedCandidates exactly once.
C14_MatchInvokesCoreOnce ==
    /\ [][(matchPc # "matching" /\ matchPc' = "matching") =>
             /\ coreCalls' = <<[text |-> jdText, id |-> matchIn'.id,
                                role |-> matchIn'.role, userId |-> userId]>>
             /\ isMatching']_vars
    /\ [][matchPc = "idle" => matchPc' \in {"idle", "matching"}]_vars
    /\ [][matchPc = "matching" => matchPc' \in {"matching", "settled"}]_vars
    /\ [][(matchPc = "matching" /\ matchPc' = "settled") =>
             /\ Len(coreCalls') = 1
             /\ ~isMatching'
             /\ matchOutcome' = "ok" =>
                   /\ matchingResults' # NoResults
                   /\ mcRefetches' = 1
                   /\ mcFetch' = "sent"]_vars
    /\ (matchPc = "matching") ~> (matchPc = "settled")

\* A match asked with a text, a job id and a role has settled with results.
C14_Witness ==
    /\ matchPc = "settled" /\ matchOutcome = "ok"
    /\ coreCalls = <<[text |-> "Senior Engineer", id |-> "JD-A",
                      role |-> "Engineer", userId |-> userId]>>
    /\ userId # Null
    /\ matchingResults.held /\ matchingResults.rows # {}
    /\ mcRefetches = 1

\* C19: when the cv_match delete of handleClearMatches fails (the backend
\* reports an error or the call throws) handleClearMatchesCore is not invoked,
\* matchingResults and the candidate match store are left as they were, and
\* the invocation emits the destructive notification and nothing else;
\* handleClearMatchesCore is invoked only after a delete that reported no
\* error.
C19_FailedClearKeepsLocalState ==
    [][(clrPc = "sent" /\ clrPc' = "idle") =>
          LET answer == clrLog'[Len(clrLog')].outcome
          IN  /\ answer # "ok" =>
                    /\ ~clrCore'
                    /\ matchingResults' = matchingResults
                    /\ mcFetch' = mcFetch
                    /\ toasts'["clear"] = <<"destructive">>
              /\ clrCore' => answer = "ok"]_vars

\* A clear whose delete failed has returned while match results are held.
C19_Witness ==
    /\ clrPc = "idle" /\ clrLog # <<>>
    /\ clrLog[Len(clrLog)].outcome = "error"
    /\ ~clrCore
    /\ toasts["clear"] = <<"destructive">>
    /\ matchingResults.held /\ matchingResults.rows # {}

-----------------------------------------------------------------------------
(* The upload component, UploadJD *)

allowedFileTypes ==
    {"application/pdf", "application/msword",
     "application/vnd.openxmlformats-officedocument.wordprocessingml.document",
     "text/plain"}

\* The files a user may pick, by name, and the type the browser reports for
\* each (selectedFile.type).
Files == {"jd.pdf", "photo.png"}
TypeOf(f) == IF f = "jd.pdf" THEN "application/pdf" ELSE "image/png"

\* The texts a user may have typed, as sequences of characters.
TextValues == {<<>>, <<" ">>, <<"j", " ">>}

\* String.prototype.trim(): white space is cut from both ends.
RECURSIVE TrimStart(_)
TrimStart(t) == IF t # <<>> /\ Head(t) = " " THEN TrimStart(Tail(t)) ELSE t
RECURSIVE TrimEnd(_)
TrimEnd(t) ==
    IF t # <<>> /\ t[Len(t)] = " " THEN TrimEnd(SubSeq(t, 1, Len(t) - 1)) ELSE t
Trim(t) == TrimEnd(TrimStart(t))

\* A variant of Blank that takes only the empty text for blank.
BlankEmptyOnly(text) == text = <<>>

\* !textInput.trim()
Blank(text) == Trim(text) = <<>>

\* A variant of fileSelected that keeps the text typed so far.
fileSelectedKeepText(selectedFile) ==
    /\ file' = selectedFile
    /\ textInput' = textInput

\* setFile(selectedFile); setTextInput("");
fileSelected(selectedFile) ==
    /\ file' = selectedFile
    /\ textInput' = <<>>

\* handleFileChange(e): selectedFile is e.target.files?.[0], Null when the
\* dialog was closed with no file.
handleFileChange(selectedFile) ==
    /\ picked' = [file |-> selectedFile, tick |-> ~picked.tick]
    /\ IF selectedFile = Null
       THEN /\ toasts' = [toasts EXCEPT !["file"] = <<>>]
            /\ UNCHANGED <<file, textInput>>
       ELSE IF TypeOf(selectedFile) \notin allowedFileTypes
       THEN /\ toasts' = [toasts EXCEPT !["file"] = <<"destructive">>]
            /\ UNCHANGED <<file, textInput>>
       ELSE /\ toasts' = [toasts EXCEPT !["file"] = <<>>]
            /\ fileSelected(selectedFile)
    /\ UNCHANGED <<sessVars, ops, consoleErrors, jdVars, slVars, isProcessing, upPc,
                   upOutcome, txPc, txOutcome, srVars, histVars, pfVars>>

\* handleTextInputChange(e): setTextInput(e.target.value); setFile(null);
handleTextInputChange(value) ==
    /\ value # textInput
    /\ textInput' = value
    /\ file' = Null
    /\ UNCHANGED <<sessVars, uiVars, jdVars, slVars, isProcessing, upPc, upOutcome,
                   txPc, txOutcome, picked, srVars, histVars, pfVars>>

\* A new invocation of a form handler begins: it has emitted `first`, logged
\* nothing and issued `calls` remote calls so far.
invoke(op, first, calls) ==
    /\ ops < MaxOps
    /\ ops' = ops + 1
    /\ invocations' = [invocations EXCEPT ![op] = @ + 1]
    /\ toasts' = [toasts EXCEPT ![op] = first]
    /\ consoleErrors' = [consoleErrors EXCEPT ![op] = FALSE]
    /\ remoteCalls' = [remoteCalls EXCEPT ![op] = calls]

\* A variant of uploadFinally that leaves the flag as it is.
uploadFinallySkipped == isProcessing' = isProcessing

\* finally { setIsProcessing(false); }
uploadFinally == isProcessing' = FALSE

\* catch (error) { console.error(...); toast({... variant: "destructive"}) }
\* and the finally block.
uploadCatch(op) ==
    /\ logError(op)
    /\ toast(op, "destructive")
    /\ uploadFinally

\* handleUpload() up to `await uploadFileToStorage(file)`.
handleUpload ==
    /\ upPc = "idle"
    /\ upOutcome' = "none"
    /\ IF file = Null
       THEN /\ invoke("upload", <<"destructive">>, 0)
            /\ UNCHANGED <<isProcessing, upPc>>
       ELSE /\ invoke("upload", <<>>, 1)
            /\ isProcessing' = TRUE
            /\ upPc' = "storing"
    /\ UNCHANGED <<sessVars, jdVars, slVars, file, textInput, txPc, txOutcome,
                   picked, srVars, pfVars>>

\* handleUpload after `await uploadFileToStorage(file)`: on to
\* `await file.text()`, or the catch block when the call threw.
handleUploadStored(outcome) ==
    /\ upPc = "storing"
    /\ IF outcome = "ok"
       THEN /\ upPc' = "reading"
            /\ UNCHANGED <<toasts, consoleErrors, isProcessing, upOutcome>>
       ELSE /\ uploadCatch("upload")
            /\ upOutcome' = "failed"
            /\ upPc' = "idle"
    /\ UNCHANGED <<sessVars, ops, jdVars, slVars, file, textInput, txPc, txOutcome,
                   picked, srVars, histVars, pfVars>>

\* handleUpload after `await file.text()`: processJobDescription is called, or
\* the catch block runs when the file could not be read.
handleUploadRead(outcome) ==
    /\ upPc = "reading"
    /\ IF outcome = "ok"
       THEN /\ upPc' = "processing"
            /\ remoteCalls' = [remoteCalls EXCEPT !["upload"] = @ + 1]
            /\ UNCHANGED <<toasts, consoleErrors, isProcessing, upOutcome>>
       ELSE /\ uploadCatch("upload")
            /\ upOutcome' = "failed"
            /\ upPc' = "idle"
            /\ UNCHANGED remoteCalls
    /\ UNCHANGED <<sessVars, ops, jdVars, slVars, file, textInput, txPc, txOutcome,
                   picked, srVars, invocations, pfVars>>

\* handleUpload after `await processJobDescription(...)`: the success toast
\* and both inputs cleared, or the catch block; then the finally block.
handleUploadProcessed(outcome) ==
    /\ upPc = "processing"
    /\ upPc' = "idle"
    /\ IF outcome = "ok"
       THEN /\ toast("upload", "success")
            /\ file' = Null
            /\ textInput' = <<>>
            /\ upOutcome' = "ok"
            /\ uploadFinally
            /\ UNCHANGED consoleErrors
       ELSE /\ uploadCatch("upload")
            /\ upOutcome' = "failed"
            /\ UNCHANGED <<file, textInput>>
    /\ UNCHANGED <<sessVars, ops, jdVars, slVars, txPc, txOutcome, picked, srVars,
                   histVars, pfVars>>

\* handleTextSubmit() up to `await processJobDescription(textInput)`.
handleTextSubmit ==
    /\ txPc = "idle"
    /\ txOutcome' = "none"
    /\ IF Blank(textInput)
       THEN /\ invoke("text", <<"destructive">>, 0)
            /\ UNCHANGED <<isProcessing, txPc>>
       ELSE /\ invoke("text", <<>>, 1)
            /\ isProcessing' = TRUE
            /\ txPc' = "processing"
    /\ UNCHANGED <<sessVars, jdVars, slVars, file, textInput, upPc, upOutcome,
                   picked, srVars, pfVars>>

\* handleTextSubmit after `await processJobDescription(textInput)`.
handleTextSubmitReply(outcome) ==
    /\ txPc = "processing"
    /\ txPc' = "idle"
    /\ IF outcome = "ok"
       THEN /\ toast("text", "success")
            /\ textInput' = <<>>
            /\ txOutcome' = "ok"
            /\ uploadFinally
            /\ UNCHANGED consoleErrors
       ELSE /\ uploadCatch("text")
            /\ txOutcome' = "failed"
            /\ UNCHANGED textInput
    /\ UNCHANGED <<sessVars, ops, jdVars, slVars, file, upPc, upOutcome, picked,
                   srVars, histVars, pfVars>>

-----------------------------------------------------------------------------
(* The candidate search tab, SearchTab *)

\* The terms a user may have typed.
SearchTerms == {"", "ann"}

\* if (!searchTerm)
EmptyTerm(term) == term = ""

\* onChange={(e) => setSearchTerm(e.target.value)}: the query key becomes
\* ['candidates', value], a query that holds no data yet.
setSearchTerm(value) ==
    /\ value # searchTerm
    /\ searchTerm' = value
    /\ searchResults' = Null
    /\ UNCHANGED <<sessVars, uiVars, jdVars, slVars, upVars, isSearching, srPc,
                   srKey, srOutcome, histVars, pfVars>>

\* handleTalentSearch() up to `await refetch()`: the button is disabled while
\* a search is in flight; refetch() runs searchCandidates, which sends the
\* select on cv_metadata.
handleTalentSearch ==
    /\ srPc = "idle"
    /\ ~isSearching
    /\ srOutcome' = "none"
    /\ IF EmptyTerm(searchTerm)
       THEN /\ invoke("search", <<"destructive">>, 0)
            /\ UNCHANGED <<isSearching, srPc, srKey>>
       ELSE /\ invoke("search", <<>>, 1)
            /\ isSearching' = TRUE
            /\ srPc' = "fetching"
            /\ srKey' = searchTerm
    /\ UNCHANGED <<sessVars, jdVars, slVars, upVars, searchTerm, searchResults,
                   pfVars>>

\* A variant of RefetchRejects in which a failed query rejects the promise.
RefetchRejectsOnFailure(outcome) == outcome # "ok"

\* `await refetch()`: refetch is called without throwOnError, so the promise
\* resolves with the query result whether searchCandidates returned or threw.
RefetchRejects(outcome) == FALSE

\* handleTalentSearch after `await refetch()`.  The select answered "ok",
\* with "error" (searchCandidates logs and throws it) or threw; the query
\* settles with data or with an error.
handleTalentSearchReply(outcome) ==
    /\ srPc = "fetching"
    /\ srPc' = "idle"
    /\ srOutcome' = IF outcome = "ok" THEN "ok" ELSE "error"
    /\ searchResults' = IF outcome = "ok" /\ srKey = searchTerm
                        THEN srKey ELSE searchResults
    /\ consoleErrors' = [consoleErrors EXCEPT !["search"] = outcome = "error"]
    /\ IF RefetchRejects(outcome)
       THEN toast("search", "destructive")
       ELSE toast("search", "success")
    /\ isSearching' = FALSE
    /\ UNCHANGED <<sessVars, ops, jdVars, slVars, upVars, searchTerm, srKey,
                   histVars, pfVars>>

-----------------------------------------------------------------------------
(* The upload component and the search tab together *)

\* No session is looked up by these components.
SessQuiet ==
    /\ session = Null /\ userId = Null /\ sessPc = "done" /\ getSessionCalls = 0

InitUI ==
    /\ SessQuiet
    /\ consoleErrors = [o \in OpNames |-> FALSE]
    /\ toasts = [o \in OpNames |-> <<>>] /\ ops = 0
    /\ JDQuiet /\ SLQuiet /\ UIQuiet /\ PFQuiet

NextUI ==
    \/ \E f \in Files \cup {Null} : handleFileChange(f)
    \/ \E t \in TextValues : handleTextInputChange(t)
    \/ handleUpload
    \/ \E o \in {"ok", "throw"} : handleUploadStored(o)
    \/ \E o \in {"ok", "throw"} : handleUploadRead(o)
    \/ \E o \in {"ok", "throw"} : handleUploadProcessed(o)
    \/ handleTextSubmit
    \/ \E o \in {"ok", "throw"} : handleTextSubmitReply(o)
    \/ \E t \in SearchTerms : setSearchTerm(t)
    \/ handleTalentSearch
    \/ \E o \in {"ok", "error", "throw"} : handleTalentSearchReply(o)

SpecUI == InitUI /\ [][NextUI]_vars

\* Every awaited call of the three handlers completes: it resolves or it
\* rejects (the transport's own timeout ends a call that gets no answer).
SpecUIFair ==
    /\ SpecUI
    /\ WF_vars(\E o \in {"ok", "throw"} : handleUploadStored(o))
    /\ WF_vars(\E o \in {"ok", "throw"} : handleUploadRead(o))
    /\ WF_vars(\E o \in {"ok", "throw"} : handleUploadProcessed(o))
    /\ WF_vars(\E o \in {"ok", "throw"} : handleTextSubmitReply(o))
    /\ WF_vars(\E o \in {"ok", "error", "throw"} : handleTalentSearchReply(o))

-----------------------------------------------------------------------------
(* Properties of the upload component and the search tab (SpecUI, SpecUIFair) *)

\* C11: an invocation of handleTalentSearch with an empty search term, of
\* handleUpload with no file selected or of handleTextSubmit with blank text
\* emits the destructive notification, issues no remote call and does not
\* touch the busy flag, which is false unless another submission is in flight.
C11_ValidationBeforeRemoteCall ==
    [][/\ (invocations'["search"] # invocations["search"] /\ searchTerm = "") =>
             /\ toasts'["search"] = <<"destructive">>
             /\ remoteCalls'["search"] = 0
             /\ srPc' = "idle"
             /\ ~isSearching'
       /\ (invocations'["upload"] # invocations["upload"] /\ file = Null) =>
             /\ toasts'["upload"] = <<"destructive">>
             /\ remoteCalls'["upload"] = 0
             /\ upPc' = "idle"
             /\ isProcessing' = isProcessing
             /\ txPc = "idle" => ~isProcessing'
       /\ (invocations'["text"] # invocations["text"] /\ Trim(textInput) = <<>>) =>
             /\ toasts'["text"] = <<"destructive">>
             /\ remoteCalls'["text"] = 0
             /\ txPc' = "idle"
             /\ isProcessing' = isProcessing
             /\ upPc = "idle" => ~isProcessing']_vars

\* Each of the three handlers has been refused by its validation, the text
\* one on a text of white space only.
C11_Witness ==
    /\ toasts["search"] = <<"destructive">> /\ remoteCalls["search"] = 0
    /\ toasts["upload"] = <<"destructive">> /\ remoteCalls["upload"] = 0
    /\ toasts["text"] = <<"destructive">> /\ remoteCalls["text"] = 0
    /\ invocations["search"] = 1 /\ invocations["upload"] = 1
    /\ invocations["text"] = 1
    /\ textInput = <<" ">>
    /\ ~isProcessing /\ ~isSearching

\* C12: an invocation of handleTalentSearch, handleUpload or handleTextSubmit
\* whose remote call failed has emitted the destructive notification and no
\* success notification when it ends; a search whose cv_metadata select
\* answered with an error does not end with "Search completed successfully".
C12_RemoteFailureNeverToastsSuccess ==
    /\ (srPc = "idle" /\ srOutcome = "error") =>
          toasts["search"] = <<"destructive">>
    /\ (upPc = "idle" /\ upOutcome = "failed") =>
          toasts["upload"] = <<"destructive">>
    /\ (txPc = "idle" /\ txOutcome = "failed") =>
          toasts["text"] = <<"destructive">>

\* C17: the selected file and the typed text are never both set, whatever the
\* order of file picks, typing, uploads and text submissions, in flight or
\* not; picking a file of a disallowed type changes neither.
C17_FileAndTextExclusive ==
    /\ [](~(file # Null /\ textInput # <<>>))
    /\ [][(/\ picked' # picked
           /\ picked'.file # Null
           /\ TypeOf(picked'.file) \notin allowedFileTypes)
          => UNCHANGED <<file, textInput>>]_vars

\* A file of a disallowed type was picked over an allowed one while a text
\* submission was in flight.
C17_Witness ==
    /\ txPc = "processing"
    /\ picked.file = "photo.png"
    /\ file = "jd.pdf"
    /\ textInput = <<>>
    /\ toasts["file"] = <<"destructive">>

\* C18: a handleUpload or handleTextSubmit invocation that passes validation
\* has isProcessing true when it issues its first remote call and sets it to
\* false when it ends, which it eventually does, whether its calls succeed
\* or fail; a validated handleTalentSearch likewise ends, with isSearching
\* false.
C18_BusyFlagSetThenReset ==
    /\ [][\A op \in {"upload", "text"} :
             (invocations'[op] # invocations[op] /\ remoteCalls'[op] > 0)
                => isProcessing']_vars
    /\ [][(invocations'["search"] # invocations["search"]
           /\ remoteCalls'["search"] > 0) => isSearching']_vars
    /\ [][(upPc # "idle" /\ upPc' = "idle") => ~isProcessing']_vars
    /\ [][(txPc # "idle" /\ txPc' = "idle") => ~isProcessing']_vars
    /\ [][(srPc # "idle" /\ srPc' = "idle") => ~isSearching']_vars
    /\ (upPc # "idle") ~> (upPc = "idle")
    /\ (txPc # "idle") ~> (txPc = "idle")
    /\ (srPc # "idle") ~> (srPc = "idle")

\* An upload that failed, a text submission that succeeded and a search whose
\* select failed have all ended with their flags reset.
C18_Witness ==
    /\ upPc = "idle" /\ upOutcome = "failed"
    /\ txPc = "idle" /\ txOutcome = "ok"
    /\ srPc = "idle" /\ srOutcome = "error"
    /\ ~isProcessing /\ ~isSearching

-----------------------------------------------------------------------------
(* The employer_profiles relation *)

ProfileIds == {1, 2}

\* The rows of user uid.
ProfilesOf(rel, uid) == {p \in DOMAIN rel : rel[p] = uid}

\* The relation holds at most one row per user_id (the unique constraint the
\* comment in saveProfile speaks of): a write that would give uid a second
\* row is answered with an error.
UniqueViolation(rel, kind, id, uid) ==
    CASE kind = "insert" -> ProfilesOf(rel, uid) # {}
      [] kind = "update" -> id \in DOMAIN rel /\ ProfilesOf(rel, uid) \ {id} # {}
      [] OTHER -> FALSE

\* How the backend may answer a write.
WriteOutcomes(rel, kind, id, uid) ==
    IF UniqueViolation(rel, kind, id, uid) THEN {"error", "throw"}
    ELSE {"ok", "error", "throw"}

\* .insert({ ...profileData }) / .update({ ...profileData }).eq('id', id),
\* answered without error: the rows of the relation afterwards.
ApplyProfileWrite(rel, kind, id, uid) ==
    IF kind = "insert"
    THEN LET new == CHOOSE p \in ProfileIds \ DOMAIN rel :
                        \A q \in ProfileIds \ DOMAIN rel : p <= q
         IN  [p \in DOMAIN rel \cup {new} |-> IF p = new THEN uid ELSE rel[p]]
    ELSE [p \in DOMAIN rel |-> IF p = id THEN uid ELSE rel[p]]

\* A variant of NoUser that takes every answer of getUser for a user.
NoUserNever(user) == FALSE

\* if (!user)
NoUser(user) == user = Null

Has(t, e) == \E i \in 1..Len(t) : t[i] = e

-----------------------------------------------------------------------------
(* ProfileForm.onSubmit *)

\* onSubmit(values) up to `await supabase.auth.getUser()`; profileId is
\* profile?.id of the form's profile, 0 when the form creates one.
onSubmit(profileId) ==
    /\ subPc = "idle"
    /\ ops < MaxOps
    /\ ops' = ops + 1
    /\ subProfile' = profileId
    /\ subUser' = Null
    /\ subTrace' = <<>>
    /\ subPc' = "auth"
    /\ begin("submit")
    /\ UNCHANGED <<sessVars, jdVars, slVars, upVars, srVars, histVars,
                   employer_profiles, svPc, svProfile, svUser, svAuth, svHadRow,
                   svTarget, svWrites, svRet>>

\* catch (error) { console.error(...); toast({ variant: "destructive", ... }) }
onSubmitCatch(sofar) ==
    /\ logError("submit")
    /\ toast("submit", "destructive")
    /\ subTrace' = Append(sofar, "destructive")
    /\ subPc' = "idle"

\* onSubmit after getUser(): the lookup failed, gave no user, or gave the
\* user of the session; with a user the update (profile?.id) or the insert
\* is sent.  subTrace records the answer, then what the handler did.
onSubmitUser(outcome) ==
    /\ subPc = "auth"
    /\ LET answer   == IF outcome # "ok" THEN "autherror"
                       ELSE IF session = Null THEN "nouser" ELSE "user"
           answered == Append(subTrace, answer)
       IN  IF outcome # "ok" \/ NoUser(session)
           THEN /\ onSubmitCatch(answered)
                /\ UNCHANGED subUser
           ELSE /\ subUser' = session
                /\ subTrace' = Append(answered,
                                      IF subProfile # 0 THEN "update" ELSE "insert")
                /\ subPc' = "writing"
                /\ UNCHANGED <<toasts, consoleErrors>>
    /\ UNCHANGED <<sessVars, ops, jdVars, slVars, upVars, srVars, histVars,
                   employer_profiles, subProfile, svPc, svProfile, svUser, svAuth,
                   svHadRow, svTarget, svWrites, svRet>>

\* onSubmit after the awaited update or insert: on an error the catch block,
\* else `await queryClient.invalidateQueries({ queryKey: ['employerProfiles'] })`.
onSubmitWritten(outcome) ==
    /\ subPc = "writing"
    /\ LET kind == subTrace[Len(subTrace)]
       IN  /\ outcome \in WriteOutcomes(employer_profiles, kind, subProfile, subUser)
           /\ employer_profiles' =
                  IF outcome = "ok"
                  THEN ApplyProfileWrite(employer_profiles, kind, subProfile, subUser)
                  ELSE employer_profiles
    /\ IF outcome = "ok"
       THEN /\ subTrace' = Append(subTrace, "invalidate")
            /\ subPc' = "invalidating"
            /\ UNCHANGED <<toasts, consoleErrors>>
       ELSE onSubmitCatch(Append(subTrace, "writeerror"))
    /\ UNCHANGED <<sessVars, ops, jdVars, slVars, upVars, srVars, histVars,
                   subProfile, subUser, svPc, svProfile, svUser, svAuth, svHadRow,
                   svTarget, svWrites, svRet>>

\* onSubmit after the awaited invalidation: the success toast, then onCancel().
onSubmitInvalidated ==
    /\ subPc = "invalidating"
    /\ toast("submit", "success")
    /\ subTrace' = subTrace \o <<"success", "onCancel">>
    /\ subPc' = "idle"
    /\ UNCHANGED <<sessVars, ops, consoleErrors, jdVars, slVars, upVars, srVars,
                   histVars, employer_profiles, subProfile, subUser, svPc,
                   svProfile, svUser, svAuth, svHadRow, svTarget, svWrites, svRet>>

-----------------------------------------------------------------------------
(* saveProfile(values, profile) *)

\* saveProfile up to `await supabase.auth.getUser()`, as call c; profileId is
\* profile?.id, 0 when there is none.
saveProfile(c, profileId) ==
    /\ svPc[c] = "idle"
    /\ ops < MaxOps
    /\ ops' = ops + 1
    /\ svPc' = [svPc EXCEPT ![c] = "auth"]
    /\ svProfile' = [svProfile EXCEPT ![c] = profileId]
    /\ svUser' = [svUser EXCEPT ![c] = Null]
    /\ svAuth' = [svAuth EXCEPT ![c] = "none"]
    /\ svHadRow' = [svHadRow EXCEPT ![c] = ProfilesOf(employer_profiles, session) # {}]
    /\ svTarget' = [svTarget EXCEPT ![c] = 0]
    /\ svWrites' = [svWrites EXCEPT ![c] = <<>>]
    /\ svRet' = [svRet EXCEPT ![c] = "none"]
    /\ UNCHANGED <<sessVars, toasts, consoleErrors, jdVars, slVars, upVars, srVars,
                   histVars, employer_profiles, subPc, subProfile, subUser,
                   subTrace>>

\* catch (error) { console.error(...); return { error } }
saveProfileCatch(c) ==
    /\ logError("save")
    /\ svPc' = [svPc EXCEPT ![c] = "idle"]
    /\ svRet' = [svRet EXCEPT ![c] = "error"]

\* saveProfile after getUser(): throw on a failed lookup or on no user; with
\* profile?.id the update is sent, without it the existence check.
saveProfileUser(c, outcome) ==
    /\ svPc[c] = "auth"
    /\ svAuth' = [svAuth EXCEPT ![c] =
                     IF outcome # "ok" THEN "error"
                     ELSE IF session = Null THEN "nouser" ELSE "ok"]
    /\ IF outcome # "ok" \/ NoUser(session)
       THEN /\ saveProfileCatch(c)
            /\ UNCHANGED <<svUser, svTarget, svWrites>>
       ELSE /\ svUser' = [svUser EXCEPT ![c] = session]
            /\ UNCHANGED <<svRet, consoleErrors>>
            /\ IF svProfile[c] # 0
               THEN /\ svTarget' = [svTarget EXCEPT ![c] = svProfile[c]]
                    /\ svWrites' = [svWrites EXCEPT ![c] = Append(@, "update")]
                    /\ svPc' = [svPc EXCEPT ![c] = "writing"]
               ELSE /\ svPc' = [svPc EXCEPT ![c] = "checking"]
                    /\ UNCHANGED <<svTarget, svWrites>>
    /\ UNCHANGED <<sessVars, toasts, ops, jdVars, slVars, upVars, srVars, histVars,
                   employer_profiles, subPc, subProfile, subUser, subTrace,
                   svProfile, svHadRow>>

\* const { data: existingProfile } = await ...select('*').eq('user_id', user.id)
\* .maybeSingle(): the id of the user's row, 0 (null) when there is none, when
\* the select failed (its error is not read) or when it found several rows.
existingProfile(rel, uid, ok) ==
    IF ok /\ Cardinality(ProfilesOf(rel, uid)) = 1
    THEN CHOOSE p \in ProfilesOf(rel, uid) : TRUE
    ELSE 0

\* saveProfile after the existence check: the update of the row found, or
\* the insert, is sent.
saveProfileChecked(c, ok) ==
    /\ svPc[c] = "checking"
    /\ LET found == existingProfile(employer_profiles, svUser[c], ok)
       IN  /\ svTarget' = [svTarget EXCEPT ![c] = found]
           /\ svWrites' = [svWrites EXCEPT ![c] =
                              Append(@, IF found # 0 THEN "update" ELSE "insert")]
    /\ svPc' = [svPc EXCEPT ![c] = "writing"]
    /\ UNCHANGED <<sessVars, uiVars, jdVars, slVars, upVars, srVars, histVars,
                   employer_profiles, subPc, subProfile, subUser, subTrace,
                   svProfile, svUser, svAuth, svHadRow, svRet>>

\* saveProfile after the awaited update or insert: `if (result.error) throw`,
\* else the select of the saved row is sent.
saveProfileWritten(c, outcome) ==
    /\ svPc[c] = "writing"
    /\ LET kind == svWrites[c][Len(svWrites[c])]
       IN  /\ outcome \in WriteOutcomes(employer_profiles, kind, svTarget[c], svUser[c])
           /\ employer_profiles' =
                  IF outcome = "ok"
                  THEN ApplyProfileWrite(employer_profiles, kind, svTarget[c], svUser[c])
                  ELSE employer_profiles
    /\ IF outcome = "ok"
       THEN /\ svPc' = [svPc EXCEPT ![c] = "fetching"]
            /\ UNCHANGED <<svRet, consoleErrors>>
       ELSE saveProfileCatch(c)
    /\ UNCHANGED <<sessVars, toasts, ops, jdVars, slVars, upVars, srVars, histVars,
                   subPc, subProfile, subUser, subTrace, svProfile, svUser, svAuth,
                   svHadRow, svTarget, svWrites>>

\* saveProfile after `...select('*').eq('user_id', user.id).single()`: the
\* select answers with the row only when the user has exactly one.
saveProfileFetched(c, ok) ==
    /\ svPc[c] = "fetching"
    /\ IF ok /\ Cardinality(ProfilesOf(employer_profiles, svUser[c])) = 1
       THEN /\ svPc' = [svPc EXCEPT ![c] = "idle"]
            /\ svRet' = [svRet EXCEPT ![c] = "data"]
            /\ UNCHANGED consoleErrors
       ELSE saveProfileCatch(c)
    /\ UNCHANGED <<sessVars, toasts, ops, jdVars, slVars, upVars, srVars, histVars,
                   employer_profiles, subPc, subProfile, subUser, subTrace,
                   svProfile, svUser, svAuth, svHadRow, svTarget, svWrites>>

-----------------------------------------------------------------------------
(* The profile form and saveProfile together *)

\* Every user has at most one row, ids given in order.
InitProfiles ==
    {<<>>, (1 :> "u1"), (1 :> "u2"), (1 :> "u1") @@ (2 :> "u2")}

InitPF ==
    /\ session \in Users \cup {Null}
    /\ userId = Null /\ sessPc = "done" /\ getSessionCalls = 0
    /\ consoleErrors = [o \in OpNames |-> FALSE]
    /\ toasts = [o \in OpNames |-> <<>>] /\ ops = 0
    /\ JDQuiet /\ SLQuiet /\ UIQuiet
    /\ employer_profiles \in InitProfiles
    /\ subPc = "idle" /\ subProfile = 0 /\ subUser = Null /\ subTrace = <<>>
    /\ svPc = [c \in Calls |-> "idle"] /\ svProfile = [c \in Calls |-> 0]
    /\ svUser = [c \in Calls |-> Null] /\ svAuth = [c \in Calls |-> "none"]
    /\ svHadRow = [c \in Calls |-> FALSE]
    /\ svTarget = [c \in Calls |-> 0] /\ svWrites = [c \in Calls |-> <<>>]
    /\ svRet = [c \in Calls |-> "none"]

NextPF ==
    \/ \E p \in {0} \cup DOMAIN employer_profiles : onSubmit(p)
    \/ \E o \in {"ok", "error", "throw"} : onSubmitUser(o)
    \/ \E o \in {"ok", "error", "throw"} : onSubmitWritten(o)
    \/ onSubmitInvalidated
    \/ \E c \in Calls, p \in {0} \cup DOMAIN employer_profiles : saveProfile(c, p)
    \/ \E c \in Calls, o \in {"ok", "error", "throw"} : saveProfileUser(c, o)
    \/ \E c \in Calls, ok \in BOOLEAN : saveProfileChecked(c, ok)
    \/ \E c \in Calls, o \in {"ok", "error", "throw"} : saveProfileWritten(c, o)
    \/ \E c \in Calls, ok \in BOOLEAN : saveProfileFetched(c, ok)

SpecPF == InitPF /\ [][NextPF]_vars

-----------------------------------------------------------------------------
(* Properties of the profile form and saveProfile (SpecPF) *)

\* C15: no user ever has more than one employer_profiles row, and a
\* saveProfile call made without a profile id for a user who had a row when
\* it was called sends no insert, however two saveProfile calls interleave.
C15_SaveProfileOneRowPerUser ==
    /\ \A u \in Users : Cardinality(ProfilesOf(employer_profiles, u)) <= 1
    /\ \A c \in Calls :
          (svProfile[c] = 0 /\ svHadRow[c]) => ~Has(svWrites[c], "insert")

\* C20: onSubmit and saveProfile send no insert and no update when the
\* identity lookup failed or gave no user; an onSubmit that failed at any
\* step has neither invalidated the employerProfiles cache nor called
\* onCancel; one that succeeded has invalidated the cache, then emitted the
\* success notification, then called onCancel, each once and in this order.
C20_NoWriteWithoutUserAndSubmitOrder ==
    /\ (Has(subTrace, "autherror") \/ Has(subTrace, "nouser")) =>
          ~Has(subTrace, "update") /\ ~Has(subTrace, "insert")
    /\ \A c \in Calls : svAuth[c] \in {"error", "nouser"} => svWrites[c] = <<>>
    /\ (\E e \in {"autherror", "nouser", "writeerror"} : Has(subTrace, e)) =>
          /\ ~Has(subTrace, "invalidate")
          /\ ~Has(subTrace, "onCancel")
          /\ toasts["submit"] = <<"destructive">>
    /\ Has(subTrace, "onCancel") =>
          /\ \E kind \in {"update", "insert"} :
                subTrace = <<"user", kind, "invalidate", "success", "onCancel">>
          /\ toasts["submit"] = <<"success">>
    /\ (subPc = "idle" /\ Has(subTrace, "invalidate")) => Has(subTrace, "onCancel")

\* An onSubmit has created a profile and returned, and a saveProfile call
\* whose identity lookup failed has returned its error.
C20_Witness ==
    /\ subPc = "idle"
    /\ subTrace = <<"user", "insert", "invalidate", "success", "onCancel">>
    /\ \E c \in Calls :
          svPc[c] = "idle" /\ svAuth[c] = "error" /\ svRet[c] = "error"

====
